---- MODULE Spec2Model ----
(***************************************************************************)
(* slog-journald (src/lib.rs): the drain that turns one slog record into   *)
(* an ordered list of journald fields and hands it to journal_send.        *)
(*                                                                         *)
(* A string the code scans character by character (a Key) is a sequence of *)
(* one-character strings; a string the code only builds and copies (a      *)
(* field key, a field value, a message) is a TLA+ string.                  *)
(***************************************************************************)
EXTENDS Integers, Sequences, FiniteSets, TLC

VARIABLES
    log_errno,          \* cfg(feature = "log_errno"), fixed at build time
    log_error_sources,  \* cfg(feature = "log_error_sources"), fixed at build time
    san,                \* the key sanitizer applied to one input key
    em,                 \* Serializer::emit_error applied to one error
    pc,                 \* per log call: the statement of JournaldDrain::log it is at
    call,               \* per log call: its arguments (info, logger_values)
    serializer,         \* per log call: the local `serializer.fields`
    enumerated,         \* per log call: the attribute sources whose serialize was called
    result,             \* per log call: what log returned
    sent                \* per log call: the journal_send invocations it made

logVars == <<pc, call, serializer, enumerated, result, sent>>
vars == <<log_errno, log_error_sources, san, em, pc, call, serializer, enumerated, result, sent>>

(***************************************************************************)
(* Bounds of the model.                                                    *)
(***************************************************************************)
MaxKeyLen == 3      \* longest input key given to the sanitizer
MaxChain == 2       \* most causes below the top error of a chain
MaxAttrs == 3       \* most attributes of one event, both sources together
NumThreads == 2     \* concurrent log calls

(***************************************************************************)
(* Characters.  The ranges are those of the match arms of SanitizedKey.    *)
(***************************************************************************)
UpperSeq == <<"A","B","C","D","E","F","G","H","I","J","K","L","M",
              "N","O","P","Q","R","S","T","U","V","W","X","Y","Z">>
LowerSeq == <<"a","b","c","d","e","f","g","h","i","j","k","l","m",
              "n","o","p","q","r","s","t","u","v","w","x","y","z">>
AsciiUpper == {UpperSeq[i] : i \in DOMAIN UpperSeq}
AsciiLower == {LowerSeq[i] : i \in DOMAIN LowerSeq}
AsciiDigit == {"0","1","2","3","4","5","6","7","8","9"}

\* char::to_ascii_uppercase: 'a'..='z' to 'A'..='Z', anything else unchanged.
to_ascii_uppercase(c) ==
    IF c \in AsciiLower
    THEN UpperSeq[CHOOSE i \in DOMAIN LowerSeq : LowerSeq[i] = c]
    ELSE c

(***************************************************************************)
(* SanitizedKey's Display: one left-to-right pass over key.chars() with    *)
(* the flag found_non_underscore.  MatchChar is the body of the loop: the  *)
(* state (the text written so far, the flag) after character c.            *)
(***************************************************************************)
\* Mutant: the guard of the third arm is lost, every invalid character is written as '_'.
MatchChar_NoGuard(c, st) ==
    IF c \in AsciiUpper \cup AsciiDigit
    THEN [out |-> Append(st.out, c), found_non_underscore |-> TRUE]
    ELSE IF c \in AsciiLower
    THEN [out |-> Append(st.out, to_ascii_uppercase(c)), found_non_underscore |-> TRUE]
    ELSE [out |-> Append(st.out, "_"), found_non_underscore |-> st.found_non_underscore]

\* Mutant: an arm `'_' => {}` ahead of the guarded arm drops every literal underscore.
MatchChar_DropsUnderscore(c, st) ==
    IF c \in AsciiUpper \cup AsciiDigit
    THEN [out |-> Append(st.out, c), found_non_underscore |-> TRUE]
    ELSE IF c \in AsciiLower
    THEN [out |-> Append(st.out, to_ascii_uppercase(c)), found_non_underscore |-> TRUE]
    ELSE IF c = "_"
    THEN st
    ELSE IF st.found_non_underscore
    THEN [out |-> Append(st.out, "_"), found_non_underscore |-> TRUE]
    ELSE st

\* Mutant: an underscore is written only when the last character written is not one.
MatchChar_Collapses(c, st) ==
    IF c \in AsciiUpper \cup AsciiDigit
    THEN [out |-> Append(st.out, c), found_non_underscore |-> TRUE]
    ELSE IF c \in AsciiLower
    THEN [out |-> Append(st.out, to_ascii_uppercase(c)), found_non_underscore |-> TRUE]
    ELSE IF st.found_non_underscore /\ st.out[Len(st.out)] # "_"
    THEN [out |-> Append(st.out, "_"), found_non_underscore |-> TRUE]
    ELSE st

MatchChar(c, st) ==
    IF c \in AsciiUpper \cup AsciiDigit
    THEN [out |-> Append(st.out, c), found_non_underscore |-> TRUE]
    ELSE IF c \in AsciiLower
    THEN [out |-> Append(st.out, to_ascii_uppercase(c)), found_non_underscore |-> TRUE]
    ELSE IF st.found_non_underscore
    THEN [out |-> Append(st.out, "_"), found_non_underscore |-> st.found_non_underscore]
    ELSE st

RECURSIVE FmtFrom(_, _, _)
FmtFrom(key, i, st) ==
    IF i > Len(key) THEN st.out ELSE FmtFrom(key, i + 1, MatchChar(key[i], st))

\* The characters SanitizedKey(key) writes.
SanitizedKeyFmt(key) == FmtFrom(key, 1, [out |-> <<>>, found_non_underscore |-> FALSE])

\* ToString::to_string of a Display value: the characters written, as one String.
RECURSIVE Collect(_)
Collect(chars) == IF chars = <<>> THEN "" ELSE chars[1] \o Collect(Tail(chars))

(***************************************************************************)
(* The sanitizer on its own: an input key, sanitized, and the result       *)
(* sanitized again.                                                        *)
(***************************************************************************)
KeyChars == {"A", "Z", "7", "a", "z", "_", "!", "é"}

RECURSIVE SeqsUpTo(_, _)
SeqsUpTo(S, n) ==
    IF n = 0 THEN {<<>>}
    ELSE LET shorter == SeqsUpTo(S, n - 1)
         IN  shorter \cup {Append(s, x) : s \in shorter, x \in S}

InputKeys == SeqsUpTo(KeyChars, MaxKeyLen)

NoSan == [phase |-> "off"]
NoEm == [phase |-> "off"]
NoCalls == <<>>

InitSanitize ==
    /\ san \in {[phase |-> "input", key |-> k, out |-> <<>>, again |-> <<>>] : k \in InputKeys}
    /\ em = NoEm
    /\ log_errno = FALSE /\ log_error_sources = FALSE
    /\ pc = NoCalls /\ call = NoCalls /\ serializer = NoCalls
    /\ enumerated = NoCalls /\ result = NoCalls /\ sent = NoCalls

Sanitize ==
    /\ san.phase = "input"
    /\ san' = [san EXCEPT !.phase = "once", !.out = SanitizedKeyFmt(san.key)]
    /\ UNCHANGED <<log_errno, log_error_sources, em, logVars>>

SanitizeAgain ==
    /\ san.phase = "once"
    /\ san' = [san EXCEPT !.phase = "twice", !.again = SanitizedKeyFmt(san.out)]
    /\ UNCHANGED <<log_errno, log_error_sources, em, logVars>>

NextSanitize == Sanitize \/ SanitizeAgain

SpecSanitize == InitSanitize /\ [][NextSanitize]_vars

(***************************************************************************)
(* Claims about the sanitizer.                                             *)
(***************************************************************************)
IsValidChar(c) == c \in AsciiUpper \cup AsciiLower \cup AsciiDigit

\* ^[A-Z0-9][A-Z0-9_]*$ or the empty string
MatchesJournaldKey(s) ==
    \/ s = <<>>
    \/ /\ s[1] \in AsciiUpper \cup AsciiDigit
       /\ \A i \in DOMAIN s : s[i] \in AsciiUpper \cup AsciiDigit \cup {"_"}

\* C1: for every input key the sanitizer's output is empty or matches
\* ^[A-Z0-9][A-Z0-9_]*$; it never begins with an underscore.
C1_OutputMatchesGrammar ==
    san.phase \in {"once", "twice"} => MatchesJournaldKey(san.out)

C1_Witness ==
    /\ san.phase = "once"
    /\ Len(san.key) >= 2 /\ san.key[1] = "_" /\ san.out # <<>>

\* C2: the sanitizer is idempotent: sanitizing a sanitized key returns it unchanged.
C2_Idempotent ==
    san.phase = "twice" => san.again = san.out

C2_Witness ==
    /\ san.phase = "twice"
    /\ san.out # san.key
    /\ \E i \in DOMAIN san.out : san.out[i] = "_"

\* The positions of key at or after its first valid character.
FirstValid(key) ==
    IF \E i \in DOMAIN key : IsValidChar(key[i])
    THEN CHOOSE i \in DOMAIN key :
            IsValidChar(key[i]) /\ \A j \in 1..(i - 1) : ~IsValidChar(key[j])
    ELSE Len(key) + 1

Positions(key) == [i \in 1..Len(key) |-> i]

OutputChar(c) == IF IsValidChar(c) THEN to_ascii_uppercase(c) ELSE "_"

\* The output in which every position selected by Keep contributes one character.
OutputOf(key, Keep(_)) ==
    LET kept == SelectSeq(Positions(key), Keep)
    IN  [j \in 1..Len(kept) |-> OutputChar(key[kept[j]])]

\* C9 as claimed: invalid characters before the first valid one are dropped, and
\* every interior run of invalid characters becomes a single underscore.
C9_Original_RunsCollapse ==
    san.phase \in {"once", "twice"} =>
        LET key == san.key
            Keep(i) == /\ i >= FirstValid(key)
                       /\ (IsValidChar(key[i]) \/ IsValidChar(key[i - 1]))
        IN  san.out = OutputOf(key, Keep)

\* C9 as amended: invalid characters before the first valid one are dropped, and
\* every invalid character after it becomes one underscore of its own, so a run
\* of n invalid characters becomes n underscores.
C9_EachInvalidCharOneUnderscore ==
    san.phase \in {"once", "twice"} =>
        LET key == san.key
            Keep(i) == i >= FirstValid(key)
        IN  san.out = OutputOf(key, Keep)

C9_Witness ==
    /\ san.phase = "once"
    /\ Len(san.key) >= 3
    /\ IsValidChar(san.key[1]) /\ ~IsValidChar(san.key[2]) /\ ~IsValidChar(san.key[3])
    /\ san.out[2] = "_" /\ san.out[3] = "_"

(***************************************************************************)
(* Errors.  A std::error::Error value is the non-empty sequence of the     *)
(* errors of its chain, itself first; each has a display text, says        *)
(* whether it is a std::io::Error with a raw OS error code (os, an Option: *)
(* <<>> or <<code>>), and which accessor its type implements to reach the  *)
(* next error: "source" (cause() then defaults to source()) or only the    *)
(* deprecated "cause" (source() is then None).                             *)
(***************************************************************************)
None == <<>>
Some(x) == <<x>>

\* error.cause()
cause(error) == IF Len(error) > 1 THEN Some(Tail(error)) ELSE None

\* error.source()
source(error) == IF error[1].impl = "source" THEN cause(error) ELSE None

\* error.to_string()
to_string(error) == error[1].text

(***************************************************************************)
(* Serializer: `fields` is the Vec the operators below take and return.    *)
(***************************************************************************)
\* Serializer::new
SerializerNew == <<>>

\* Mutant: the field is inserted at the front of the Vec.
add_field_Front(fields, key, value) == <<[key |-> key, value |-> value]>> \o fields

\* Mutant: a field whose key is already present is not added.
add_field_Dedup(fields, key, value) ==
    IF \E i \in DOMAIN fields : fields[i].key = key
    THEN fields
    ELSE Append(fields, [key |-> key, value |-> value])

add_field(fields, key, value) == Append(fields, [key |-> key, value |-> value])

\* Serializer::emit (it cannot fail): val is val.to_string().
emit(fields, key, val) == add_field(fields, Collect(SanitizedKeyFmt(key)), val)

\* Mutant: only the error's own text is written, its causes are not.
ErrorAsFmt_TopOnly(error) == to_string(error)

\* ErrorAsFmt's Display: the error, then ": " and each cause() in turn.
RECURSIVE ErrorAsFmt(_)
ErrorAsFmt(error) ==
    LET next == cause(error)
    IN  IF next = None THEN to_string(error)
        ELSE to_string(error) \o ": " \o ErrorAsFmt(next[1])

\* emit_error, the log_errno block: walk source() and add ERRNO for each
\* io::Error that has a raw OS error.
RECURSIVE ErrnoLoop(_, _)
ErrnoLoop(fields, error_source) ==
    IF error_source = None THEN fields
    ELSE LET src == error_source[1]
             added == IF src[1].os # None
                      THEN add_field(fields, "ERRNO", ToString(src[1].os[1]))
                      ELSE fields
         IN  ErrnoLoop(added, source(src))

\* emit_error, the while loop of the log_error_sources block: the state
\* (fields, depth) when error_cause has become None.
RECURSIVE SourcesLoop(_, _, _)
SourcesLoop(fields, error_cause, depth) ==
    IF error_cause = None THEN [fields |-> fields, depth |-> depth]
    ELSE SourcesLoop(add_field(fields, "ERROR_SOURCE_" \o ToString(depth),
                               to_string(error_cause[1])),
                     cause(error_cause[1]), depth + 1)

\* Mutant: the walk starts at the error's cause instead of the error itself.
ErrorSources_FromCause(fields, error) ==
    LET end == SourcesLoop(fields, cause(error), 0)
    IN  add_field(end.fields, "ERROR_SOURCE_DEPTH", ToString(end.depth))

\* emit_error, the whole log_error_sources block.
ErrorSources(fields, error) ==
    LET end == SourcesLoop(fields, Some(error), 0)
    IN  add_field(end.fields, "ERROR_SOURCE_DEPTH", ToString(end.depth))

\* Serializer::emit_error (it cannot fail).
emit_error(fields, key, error) ==
    LET f1 == IF log_errno THEN ErrnoLoop(fields, Some(error)) ELSE fields
        f2 == IF log_error_sources THEN ErrorSources(f1, error) ELSE f1
    IN  emit(f2, key, ErrorAsFmt(error))

(***************************************************************************)
(* emit_error on its own: a build configuration, an accumulator, a key and *)
(* an error.                                                               *)
(***************************************************************************)
ErrorTexts == {"open failed", "denied"}

\* An error of the chain that is not its last: it has an inner error, so it is
\* no io::Error built from a raw OS code.
InnerNodes == [text : ErrorTexts, os : {None}, impl : {"source", "cause"}]
LastNodes == [text : ErrorTexts, os : {None, Some(13)}, impl : {"source"}]

RECURSIVE ErrorsWithCauses(_)
ErrorsWithCauses(n) ==
    IF n = 0 THEN {<<l>> : l \in LastNodes}
    ELSE {<<i>> \o e : i \in InnerNodes, e \in ErrorsWithCauses(n - 1)}

Errors == UNION {ErrorsWithCauses(n) : n \in 0..MaxChain}

ErrorKeys == {<<"e", "r", "r">>, <<"_", "I", "o", "-", "e">>}
PriorFields == {<<>>, <<[key |-> "CODE_FILE", value |-> ""]>>}

InitEmit ==
    /\ log_errno \in BOOLEAN /\ log_error_sources \in BOOLEAN
    /\ em \in {[phase |-> "input", key |-> k, error |-> e, before |-> f, fields |-> f] :
                    k \in ErrorKeys, e \in Errors, f \in PriorFields}
    /\ san = NoSan
    /\ pc = NoCalls /\ call = NoCalls /\ serializer = NoCalls
    /\ enumerated = NoCalls /\ result = NoCalls /\ sent = NoCalls

EmitError ==
    /\ em.phase = "input"
    /\ em' = [em EXCEPT !.phase = "done", !.fields = emit_error(em.fields, em.key, em.error)]
    /\ UNCHANGED <<log_errno, log_error_sources, san, logVars>>

NextEmit == EmitError

SpecEmit == InitEmit /\ [][NextEmit]_vars

(***************************************************************************)
(* Claims about emit_error.                                                *)
(***************************************************************************)
\* The fields a call appended to an accumulator that held `before`.
Appended(before, after) == SubSeq(after, Len(before) + 1, Len(after))

RECURSIVE JoinTexts(_, _)
JoinTexts(error, n) ==
    IF n = 1 THEN error[1].text
    ELSE JoinTexts(error, n - 1) \o ": " \o error[n].text

\* C7: with both enrichment modes disabled emit_error appends exactly one field:
\* the sanitized key, and the error's text followed by ": " and the text of each
\* error of its causal chain, in chain order.
C7_SingleFieldRendering ==
    (em.phase = "done" /\ ~log_errno /\ ~log_error_sources) =>
        /\ Len(em.fields) = Len(em.before) + 1
        /\ SubSeq(em.fields, 1, Len(em.before)) = em.before
        /\ em.fields[Len(em.fields)] =
              [key |-> Collect(SanitizedKeyFmt(em.key)),
               value |-> JoinTexts(em.error, Len(em.error))]

C7_Witness ==
    /\ em.phase = "done" /\ ~log_errno /\ ~log_error_sources
    /\ Len(em.error) = 3
    /\ Len(em.fields) = Len(em.before) + 1
    /\ em.fields[Len(em.fields)].value = "open failed: denied: open failed"

\* The fields of fs that are not ERRNO fields.
NotErrno(fs) == SelectSeq(fs, LAMBDA f : f.key # "ERRNO")

\* The enrichment fields emit_error appended: all but the last (primary) field.
Enrichment == LET added == Appended(em.before, em.fields)
              IN  NotErrno(SubSeq(added, 1, Len(added) - 1))

\* C8 as claimed: for an error with `depth` causal steps, chain enrichment adds
\* exactly the fields ERROR_SOURCE_0 .. ERROR_SOURCE_{depth-1} and one
\* ERROR_SOURCE_DEPTH field whose value is depth.
C8_Original_DepthIsCausalSteps ==
    (em.phase = "done" /\ log_error_sources) =>
        LET depth == Len(em.error) - 1
        IN  /\ Len(Enrichment) = depth + 1
            /\ \A i \in 1..depth :
                  Enrichment[i].key = "ERROR_SOURCE_" \o ToString(i - 1)
            /\ Enrichment[depth + 1] =
                  [key |-> "ERROR_SOURCE_DEPTH", value |-> ToString(depth)]

\* C8 as amended: the error itself is ERROR_SOURCE_0, so for an error with
\* `depth` causal steps chain enrichment adds ERROR_SOURCE_0 .. ERROR_SOURCE_depth
\* (the error, then its causes in chain order, each with its own text) and one
\* ERROR_SOURCE_DEPTH field whose value is depth + 1; the primary field follows.
C8_DepthCountsTheErrorItself ==
    (em.phase = "done" /\ log_error_sources) =>
        LET depth == Len(em.error) - 1
        IN  /\ Len(Enrichment) = depth + 2
            /\ \A i \in 1..(depth + 1) :
                  Enrichment[i] = [key |-> "ERROR_SOURCE_" \o ToString(i - 1),
                                   value |-> em.error[i].text]
            /\ Enrichment[depth + 2] =
                  [key |-> "ERROR_SOURCE_DEPTH", value |-> ToString(depth + 1)]
            /\ em.fields[Len(em.fields)].key = Collect(SanitizedKeyFmt(em.key))

C8_Witness ==
    /\ em.phase = "done" /\ log_error_sources
    /\ Len(em.error) = 3
    /\ \E i \in DOMAIN em.fields :
          em.fields[i] = [key |-> "ERROR_SOURCE_DEPTH", value |-> "3"]
    /\ \E i \in DOMAIN em.fields : em.fields[i].key = "ERROR_SOURCE_2"

(***************************************************************************)
(* JournaldDrain::log.                                                     *)
(***************************************************************************)
Levels == {"Level::Critical", "Level::Error", "Level::Warning",
           "Level::Info", "Level::Debug", "Level::Trace"}
Priorities == {"Priority::Emergency", "Priority::Alert", "Priority::Critical",
               "Priority::Error", "Priority::Warning", "Priority::Notice",
               "Priority::Info", "Priority::Debug"}

\* Mutant: Info is sent as Info, colliding with Debug's priority.
level_to_priority_InfoAsInfo(level) ==
    CASE level = "Level::Critical" -> "Priority::Critical"
      [] level = "Level::Error" -> "Priority::Error"
      [] level = "Level::Warning" -> "Priority::Warning"
      [] level = "Level::Info" -> "Priority::Info"
      [] level = "Level::Debug" -> "Priority::Info"
      [] level = "Level::Trace" -> "Priority::Debug"

level_to_priority(level) ==
    CASE level = "Level::Critical" -> "Priority::Critical"
      [] level = "Level::Error" -> "Priority::Error"
      [] level = "Level::Warning" -> "Priority::Warning"
      [] level = "Level::Info" -> "Priority::Notice"
      [] level = "Level::Debug" -> "Priority::Info"
      [] level = "Level::Trace" -> "Priority::Debug"

\* The emit_* method slog calls for a value of each kind (the __emitter! lines
\* and emit_error); none of them fails.
EmitValue(fields, key, value) ==
    CASE value.kind = "unit" -> emit(fields, key, "")
      [] value.kind = "none" -> emit(fields, key, "None")
      [] value.kind = "bool" -> emit(fields, key, IF value.v THEN "true" ELSE "false")
      [] value.kind = "u64" -> emit(fields, key, ToString(value.v))
      [] value.kind = "str" -> emit(fields, key, value.v)
      [] value.kind = "error" -> emit_error(fields, key, value.error)

\* logger_values.serialize(info, &mut serializer) and info.kv().serialize(..):
\* the source hands its pairs to the serializer in its own order; a pair whose
\* value fails to serialize (kind "fail") ends the walk with that slog::Error.
RECURSIVE KVSerialize(_, _)
KVSerialize(kvs, fields) ==
    IF kvs = <<>> THEN [ok |-> TRUE, fields |-> fields]
    ELSE IF kvs[1].value.kind = "fail"
    THEN [ok |-> FALSE, fields |-> fields, err |-> kvs[1].value.err]
    ELSE KVSerialize(Tail(kvs), EmitValue(fields, kvs[1].key, kvs[1].value))

\* impl From<slog::Error> for Error
FromSlogError(e) == [variant |-> "Serialization", inner |-> e]

\* Error::Journald
Journald(e) == [variant |-> "Journald", inner |-> e]

Ok == [kind |-> "Ok"]
Err(e) == [kind |-> "Err", err |-> e]
Pending == [kind |-> "pending"]

\* What journal_send may return: Ok(()) or Err(SdError).
SdErrors == {"EAGAIN", "EMSGSIZE"}
SendOutcomes == {Ok} \cup {Err(e) : e \in SdErrors}

\* log returns at `?` or at its last expression; its locals are dropped.
Return(t, res) ==
    /\ result' = [result EXCEPT ![t] = res]
    /\ serializer' = [serializer EXCEPT ![t] = <<>>]
    /\ pc' = [pc EXCEPT ![t] = "returned"]

\* Mutant: the accumulator is one buffer shared by the calls in progress instead
\* of a Vec created by Serializer::new for this call.
LogEnter_SharedAccumulator(t, info, logger_values) ==
    /\ pc[t] = "idle"
    /\ call' = [call EXCEPT ![t] = [info |-> info, logger_values |-> logger_values]]
    /\ LET RECURSIVE Others(_)
           Others(n) == IF n = 0 THEN <<>>
                        ELSE Others(n - 1) \o (IF n \in DOMAIN pc /\ n # t
                                               THEN serializer[n] ELSE <<>>)
           s0 == Others(Len(pc))
           s1 == add_field(s0, "CODE_FILE", info.file)
           s2 == add_field(s1, "CODE_LINE", ToString(info.line))
           s3 == add_field(s2, "CODE_MODULE", info.module)
           s4 == add_field(s3, "CODE_FUNCTION", info.function)
       IN  serializer' = [serializer EXCEPT ![t] = s4]
    /\ pc' = [pc EXCEPT ![t] = "logger_values"]
    /\ UNCHANGED <<log_errno, log_error_sources, san, em, enumerated, result, sent>>

\* log is called; lines 50-54: a new Serializer and the four CODE_ fields.
LogEnter(t, info, logger_values) ==
    /\ pc[t] = "idle"
    /\ call' = [call EXCEPT ![t] = [info |-> info, logger_values |-> logger_values]]
    /\ LET s0 == SerializerNew
           s1 == add_field(s0, "CODE_FILE", info.file)
           s2 == add_field(s1, "CODE_LINE", ToString(info.line))
           s3 == add_field(s2, "CODE_MODULE", info.module)
           s4 == add_field(s3, "CODE_FUNCTION", info.function)
       IN  serializer' = [serializer EXCEPT ![t] = s4]
    /\ pc' = [pc EXCEPT ![t] = "logger_values"]
    /\ UNCHANGED <<log_errno, log_error_sources, san, em, enumerated, result, sent>>

\* Mutant: the Result of logger_values.serialize is discarded instead of `?`.
SerializeLoggerValues_IgnoresError(t) ==
    /\ pc[t] = "logger_values"
    /\ enumerated' = [enumerated EXCEPT ![t] = @ \cup {"logger_values"}]
    /\ serializer' = [serializer EXCEPT
                        ![t] = KVSerialize(call[t].logger_values, serializer[t]).fields]
    /\ pc' = [pc EXCEPT ![t] = "kv"]
    /\ UNCHANGED <<log_errno, log_error_sources, san, em, call, result, sent>>

\* line 56: logger_values.serialize(info, &mut serializer)?
SerializeLoggerValues(t) ==
    /\ pc[t] = "logger_values"
    /\ enumerated' = [enumerated EXCEPT ![t] = @ \cup {"logger_values"}]
    /\ LET r == KVSerialize(call[t].logger_values, serializer[t])
       IN  IF r.ok
           THEN /\ serializer' = [serializer EXCEPT ![t] = r.fields]
                /\ pc' = [pc EXCEPT ![t] = "kv"]
                /\ UNCHANGED result
           ELSE Return(t, Err(FromSlogError(r.err)))
    /\ UNCHANGED <<log_errno, log_error_sources, san, em, call, sent>>

\* line 57: info.kv().serialize(info, &mut serializer)?
SerializeKV(t) ==
    /\ pc[t] = "kv"
    /\ enumerated' = [enumerated EXCEPT ![t] = @ \cup {"kv"}]
    /\ LET r == KVSerialize(call[t].info.kv, serializer[t])
       IN  IF r.ok
           THEN /\ serializer' = [serializer EXCEPT ![t] = r.fields]
                /\ pc' = [pc EXCEPT ![t] = "journal_send"]
                /\ UNCHANGED result
           ELSE Return(t, Err(FromSlogError(r.err)))
    /\ UNCHANGED <<log_errno, log_error_sources, san, em, call, sent>>

Submission(t, outcome) ==
    [priority |-> level_to_priority(call[t].info.level),
     msg |-> call[t].info.msg,
     fields |-> serializer[t],
     returned |-> outcome]

\* Mutant: the Result of journal_send is dropped with .ok() and log returns Ok(()).
JournalSend_SwallowsError(t, outcome) ==
    /\ pc[t] = "journal_send"
    /\ sent' = [sent EXCEPT ![t] = Append(@, Submission(t, outcome))]
    /\ Return(t, Ok)
    /\ UNCHANGED <<log_errno, log_error_sources, san, em, call, enumerated>>

\* lines 59-64: journal_send(priority, msg, fields).map_err(Error::Journald)
JournalSend(t, outcome) ==
    /\ pc[t] = "journal_send"
    /\ sent' = [sent EXCEPT ![t] = Append(@, Submission(t, outcome))]
    /\ Return(t, IF outcome.kind = "Ok" THEN Ok ELSE Err(Journald(outcome.err)))
    /\ UNCHANGED <<log_errno, log_error_sources, san, em, call, enumerated>>

\* The caller has the Result; the thread is free to log again.
LogReturn(t) ==
    /\ pc[t] = "returned"
    /\ pc' = [pc EXCEPT ![t] = "idle"]
    /\ call' = [call EXCEPT ![t] = <<>>]
    /\ enumerated' = [enumerated EXCEPT ![t] = {}]
    /\ result' = [result EXCEPT ![t] = Pending]
    /\ sent' = [sent EXCEPT ![t] = <<>>]
    /\ UNCHANGED <<log_errno, log_error_sources, san, em, serializer>>

InitCalls(T) ==
    /\ log_errno \in BOOLEAN /\ log_error_sources \in BOOLEAN
    /\ san = NoSan /\ em = NoEm
    /\ pc = [t \in T |-> "idle"]
    /\ call = [t \in T |-> <<>>]
    /\ serializer = [t \in T |-> <<>>]
    /\ enumerated = [t \in T |-> {}]
    /\ result = [t \in T |-> Pending]
    /\ sent = [t \in T |-> <<>>]

(***************************************************************************)
(* One log call at a time, over every event of up to MaxAttrs attributes.  *)
(***************************************************************************)
Locations ==
    {[file |-> "", line |-> 0, module |-> "", function |-> ""],
     [file |-> "src/main.rs", line |-> 20, module |-> "app", function |-> "main"]}

IoError == <<[text |-> "open failed", os |-> None, impl |-> "source"],
             [text |-> "denied", os |-> Some(13), impl |-> "source"]>>

AttrFoo == [key |-> <<"f", "o", "o">>, value |-> [kind |-> "str", v |-> "bar"]]
AttrFooAgain == [key |-> <<"_", "F", "o", "o">>, value |-> [kind |-> "none"]]
AttrErr == [key |-> <<"e", "r", "r">>, value |-> [kind |-> "error", error |-> IoError]]
AttrBad == [key |-> <<"b", "a", "d">>, value |-> [kind |-> "fail", err |-> "slog::Error::Fmt"]]
AttrCount == [key |-> <<"n", "2">>, value |-> [kind |-> "u64", v |-> 7]]
AttrPool == {AttrFoo, AttrFooAgain, AttrErr, AttrBad, AttrCount}

\* (logger_values, kv) with at most n attributes together.
SourcePairs(n) ==
    LET all == SeqsUpTo(AttrPool, n)
    IN  {p \in all \X all : Len(p[1]) + Len(p[2]) <= n}

Info(level, loc, msg, kv) ==
    [level |-> level, msg |-> msg, file |-> loc.file, line |-> loc.line,
     module |-> loc.module, function |-> loc.function, kv |-> kv]

Events == SourcePairs(MaxAttrs)

NextLog ==
    \/ /\ pc[1] = "idle"
       /\ \E level \in Levels, loc \in Locations, p \in Events :
             LogEnter(1, Info(level, loc, "Testing journald", p[2]), p[1])
    \/ SerializeLoggerValues(1)
    \/ SerializeKV(1)
    \/ \E outcome \in SendOutcomes : JournalSend(1, outcome)
    \/ LogReturn(1)

SpecLog == InitCalls({1}) /\ [][NextLog]_vars

(***************************************************************************)
(* Concurrent log calls on one drain.                                      *)
(***************************************************************************)
Threads == 1..NumThreads

AttrBuild == [key |-> <<"b", "u", "i", "l", "d", "_", "d", "i">>,
              value |-> [kind |-> "str", v |-> "12344"]]
AttrUnit == [key |-> <<"(", "u", ")">>, value |-> [kind |-> "unit"]]
AttrOk == [key |-> <<"o", "k">>, value |-> [kind |-> "bool", v |-> TRUE]]

ConcurrentCalls ==
    {[info |-> Info("Level::Info", CHOOSE l \in Locations : l.line = 20,
                    "Testing journald", <<AttrFoo>>),
      logger_values |-> <<AttrBuild>>],
     [info |-> Info("Level::Error", CHOOSE l \in Locations : l.line = 0,
                    "request failed", <<AttrErr, AttrOk>>),
      logger_values |-> <<AttrBuild, AttrCount>>],
     [info |-> Info("Level::Debug", CHOOSE l \in Locations : l.line = 20,
                    "dropped", <<AttrBad>>),
      logger_values |-> <<AttrUnit>>]}

Next ==
    \E t \in Threads :
        \/ /\ pc[t] = "idle"
           /\ \E c \in ConcurrentCalls : LogEnter(t, c.info, c.logger_values)
        \/ SerializeLoggerValues(t)
        \/ SerializeKV(t)
        \/ \E outcome \in SendOutcomes : JournalSend(t, outcome)
        \/ LogReturn(t)

Spec == InitCalls(Threads) /\ [][Next]_vars

(***************************************************************************)
(* Claims about log.                                                       *)
(***************************************************************************)
Calls == DOMAIN pc

PriorityTable ==
    ("Level::Critical" :> "Priority::Critical") @@ ("Level::Error" :> "Priority::Error")
    @@ ("Level::Warning" :> "Priority::Warning") @@ ("Level::Info" :> "Priority::Notice")
    @@ ("Level::Debug" :> "Priority::Info") @@ ("Level::Trace" :> "Priority::Debug")

\* C3: level_to_priority is total over the six severities, follows the table
\* Critical->Critical, Error->Error, Warning->Warning, Info->Notice, Debug->Info,
\* Trace->Debug, and its six results are pairwise distinct; every submission
\* carries the priority the table gives for its event's level.
C3_LevelToPriorityTable ==
    /\ \A t \in Calls : \A i \in DOMAIN sent[t] :
          sent[t][i].priority = PriorityTable[call[t].info.level]
    /\ \A l \in Levels : level_to_priority(l) \in Priorities
    /\ \A l1, l2 \in Levels : l1 # l2 => level_to_priority(l1) # level_to_priority(l2)

C3_Witness ==
    \E t \in Calls :
        /\ sent[t] # <<>>
        /\ call[t].info.level = "Level::Info"
        /\ sent[t][1].priority = "Priority::Notice"

\* The text a value is rendered to when error enrichment is disabled.
DisplayText(value) ==
    CASE value.kind = "unit" -> ""
      [] value.kind = "none" -> "None"
      [] value.kind = "bool" -> IF value.v THEN "true" ELSE "false"
      [] value.kind = "u64" -> ToString(value.v)
      [] value.kind = "str" -> value.v
      [] value.kind = "error" -> JoinTexts(value.error, Len(value.error))

OneField(attr) == [key |-> Collect(SanitizedKeyFmt(attr.key)), value |-> DisplayText(attr.value)]

Fails(kvs) == \E i \in DOMAIN kvs : kvs[i].value.kind = "fail"

\* C4: with error enrichment disabled, the field list of every submission is
\* CODE_FILE, CODE_LINE, CODE_MODULE, CODE_FUNCTION (even with empty values),
\* then one field per logger_values attribute in order, then one field per
\* info.kv attribute in order; nothing is reordered, dropped or deduplicated.
C4_FieldOrder ==
    \A t \in Calls : \A i \in DOMAIN sent[t] :
        (~log_errno /\ ~log_error_sources) =>
            LET info == call[t].info
                lv == call[t].logger_values
                fields == sent[t][i].fields
            IN  /\ Len(fields) = 4 + Len(lv) + Len(info.kv)
                /\ fields[1] = [key |-> "CODE_FILE", value |-> info.file]
                /\ fields[2] = [key |-> "CODE_LINE", value |-> ToString(info.line)]
                /\ fields[3] = [key |-> "CODE_MODULE", value |-> info.module]
                /\ fields[4] = [key |-> "CODE_FUNCTION", value |-> info.function]
                /\ \A j \in DOMAIN lv : fields[4 + j] = OneField(lv[j])
                /\ \A j \in DOMAIN info.kv : fields[4 + Len(lv) + j] = OneField(info.kv[j])

C4_Witness ==
    \E t \in Calls :
        /\ ~log_errno /\ ~log_error_sources
        /\ sent[t] # <<>>
        /\ call[t].info.file = ""
        /\ call[t].logger_values = <<AttrErr, AttrFoo>>
        /\ call[t].info.kv = <<AttrFooAgain>>
        /\ sent[t][1].fields[6].key = "FOO" /\ sent[t][1].fields[7].key = "FOO"

\* The slog::Error of the first failing pair of a source.
FirstFailure(kvs) ==
    kvs[CHOOSE i \in DOMAIN kvs :
            kvs[i].value.kind = "fail" /\ \A j \in 1..(i - 1) : kvs[j].value.kind # "fail"
       ].value.err

\* C5: if enumerating logger_values or info.kv fails, journal_send is never
\* invoked for that event, the remaining source is not enumerated, and log
\* returns Error::Serialization wrapping the source's error.
C5_SerializationFailureSendsNothing ==
    \A t \in Calls :
        LET lv == call[t].logger_values
            kv == call[t].info.kv
        IN  /\ (pc[t] # "idle" /\ (Fails(lv) \/ Fails(kv))) =>
                  /\ sent[t] = <<>>
                  /\ pc[t] # "journal_send"
            /\ (pc[t] # "idle" /\ Fails(lv)) =>
                  /\ "kv" \notin enumerated[t]
                  /\ pc[t] \in {"logger_values", "returned"}
            /\ (pc[t] = "returned" /\ Fails(lv)) =>
                  result[t] = Err([variant |-> "Serialization", inner |-> FirstFailure(lv)])
            /\ (pc[t] = "returned" /\ ~Fails(lv) /\ Fails(kv)) =>
                  result[t] = Err([variant |-> "Serialization", inner |-> FirstFailure(kv)])

C5_Witness ==
    \E t \in Calls :
        /\ pc[t] = "returned"
        /\ call[t].logger_values = <<AttrFoo, AttrBad>>
        /\ call[t].info.kv = <<AttrErr>>
        /\ enumerated[t] = {"logger_values"}
        /\ sent[t] = <<>>
        /\ result[t].kind = "Err"

\* C6: journal_send is invoked at most once per log call; if it fails log
\* returns Error::Journald carrying that failure; log returns Ok only when one
\* submission was made and it succeeded; a call that submitted nothing
\* returns an error.
C6_AtMostOneSubmission ==
    \A t \in Calls :
        /\ Len(sent[t]) <= 1
        /\ sent[t] # <<>> => pc[t] = "returned"
        /\ pc[t] = "returned" =>
              /\ result[t].kind \in {"Ok", "Err"}
              /\ result[t].kind = "Ok" <=>
                    (Len(sent[t]) = 1 /\ sent[t][1].returned.kind = "Ok")
              /\ (sent[t] # <<>> /\ sent[t][1].returned.kind = "Err") =>
                    result[t] = Err([variant |-> "Journald",
                                     inner |-> sent[t][1].returned.err])
              /\ sent[t] = <<>> => result[t].kind = "Err"

C6_Witness ==
    \E t \in Calls :
        /\ pc[t] = "returned"
        /\ Len(sent[t]) = 1
        /\ sent[t][1].returned = [kind |-> "Err", err |-> "EAGAIN"]
        /\ result[t] = [kind |-> "Err", err |-> [variant |-> "Journald", inner |-> "EAGAIN"]]

\* The field list log builds from one call's arguments when it runs alone.
OwnFields(c) ==
    LET diag == <<[key |-> "CODE_FILE", value |-> c.info.file],
                  [key |-> "CODE_LINE", value |-> ToString(c.info.line)],
                  [key |-> "CODE_MODULE", value |-> c.info.module],
                  [key |-> "CODE_FUNCTION", value |-> c.info.function]>>
    IN  KVSerialize(c.info.kv, KVSerialize(c.logger_values, diag).fields).fields

IsPrefix(a, b) == Len(a) <= Len(b) /\ SubSeq(b, 1, Len(a)) = a

\* C10: under any interleaving of concurrent log calls, each call's
\* accumulator holds only fields of its own event, and the field list it
\* submits is exactly the field list of its own event.
C10_CallsAreIsolated ==
    \A t \in Calls :
        /\ pc[t] \in {"logger_values", "kv", "journal_send"} =>
              IsPrefix(serializer[t], OwnFields(call[t]))
        /\ \A i \in DOMAIN sent[t] : sent[t][i].fields = OwnFields(call[t])

C10_Witness ==
    \E t, u \in Calls :
        /\ t # u
        /\ sent[t] # <<>> /\ pc[u] = "kv"
        /\ call[t] # call[u]
        /\ Len(serializer[u]) > 4
        /\ ~IsPrefix(serializer[u], sent[t][1].fields)
====
